---- MODULE Spec2Model ----
(***************************************************************************)
(* Model of homepilot's preference scorer, HouseScorer (src/ml/scorer.py), *)
(* specification Spec; of the session state of the Streamlit app           *)
(* (src/app.py), specification SessionSpec; and of the loop of             *)
(* fetch_nationwide_listings (src/data_pipeline.py), specification         *)
(* FetchSpec.  Each specification keeps the variables of the other two at  *)
(* their initial values.                                                   *)
(*                                                                         *)
(* Numbers.  Every quantity is an integer:                                 *)
(*   - prices, beds, sqft, year_built and distances are the source's own   *)
(*     numbers;                                                            *)
(*   - baths (and min_baths) are counted in half-baths, so that the        *)
(*     sample's 2.5 baths is 5 and 2 baths is 4;                           *)
(*   - a weight is kept in percent, as the app's sliders produce it        *)
(*     (src/app.py:343-362: price_weight / 100): the weight 0.3 is 30;     *)
(*   - a score is kept in cents: the float 62.75 is 6275;                  *)
(*   - a value of a normalized series or of a component score is an exact  *)
(*     fraction <<num, den>> with den > 0, or NaN.                         *)
(* A Python dict is a function whose DOMAIN is the set of its keys.  A     *)
(* cell of a DataFrame column or of a Series is a tuple: <<>> is NaN,      *)
(* <<v>> the number (or string) v, <<num, den>> a fraction.                *)
(***************************************************************************)
EXTENDS Integers, Sequences, FiniteSets, TLC

VARIABLES
    listings,          \* the caller's list of listing dicts
    user_preferences,  \* the caller's preferences dict
    scaler,            \* HouseScorer.scaler, the state of the instance
    result,            \* outcome of the latest call of score_listings
    prev,              \* outcome of the call before the latest one
    phase,             \* src/app.py: "start" before the first run of the script
    embedder,          \* st.session_state.embedder
    qa,                \* st.session_state.qa
    conv_qa,           \* st.session_state.conv_qa
    messages,          \* conv_qa.chat_history.messages, the memory of conv_qa
    chat_history,      \* st.session_state.chat_history
    raised,            \* the exception that ended the latest run of the script
    city,              \* fetch_nationwide_listings: cities done by the loop
    all_listings,      \* the listings collected, each the number of its city
    successful_cities,
    failed_cities,
    log,               \* the line printed for each city: "ok", "none" or "error"
    returned           \* fetch_nationwide_listings has returned all_listings

scorerVars == <<listings, user_preferences, scaler, result, prev>>
sessionVars == <<phase, embedder, qa, conv_qa, messages, chat_history, raised>>
fetchVars == <<city, all_listings, successful_cities, failed_cities, log, returned>>
vars == <<scorerVars, sessionVars, fetchVars>>

NaN == <<>>

\* Outcomes of a call: a returned list of records, or a raised exception.
NotCalled == [kind |-> "not called", error |-> "", value |-> <<>>]
Return(records) == [kind |-> "return", error |-> "", value |-> records]
Raise(e) == [kind |-> "raise", error |-> e, value |-> <<>>]

EmptyDict == [x \in {} |-> 0]

\* Op(v), with v evaluated once (a local variable of the code).
Bind(v, Op(_)) == CHOOSE r \in {Op(x) : x \in {v}} : TRUE

\* The numeric keys of a listing dict that the scorer reads.
NumericKeys == {"price", "beds", "baths", "sqft", "year_built", "distance_to_downtown"}

\* Longest input list of freely chosen listings.
MaxListings == 3

\* for listing in scored_listings[:10] (src/app.py): the caller shows the
\* first ten records.
TopN == 10

\* How far beyond TopN the long input lists go.
MaxBeyondTop == 2

\* Most entries of the session's chat_history.
MaxChat == 3

\* The cities fetch_nationwide_listings loops over (30 in the source), and
\* the most listings a city returns (limit_per_city).
NumCities == 4
MaxPerCity == 2

----------------------------------------------------------------------------
(* The inputs.                                                             *)

\* The three sample listings of the module's own test run.
Sample1 ==
    [id |-> "1", price |-> 400000, beds |-> 3, baths |-> 4, sqft |-> 2000,
     year_built |-> 2015, distance_to_downtown |-> 5]
Sample2 ==
    [id |-> "2", price |-> 350000, beds |-> 4, baths |-> 5, sqft |-> 2200,
     year_built |-> 2018, distance_to_downtown |-> 3]
Sample3 ==
    [id |-> "3", price |-> 450000, beds |-> 3, baths |-> 4, sqft |-> 1800,
     year_built |-> 2010, distance_to_downtown |-> 8]

\* A studio: no bedroom, one bath, the cheapest, smallest and closest of
\* the listings, and built before 1900.
Studio ==
    [id |-> "4", price |-> 300000, beds |-> 0, baths |-> 2, sqft |-> 1600,
     year_built |-> 1890, distance_to_downtown |-> 2]

\* A listing dict from which one key is missing.
Without(d, k) == [x \in DOMAIN d \ {k} |-> d[x]]

\* The listings an input list is made of: the samples, the studio, and the
\* first sample with each one of its numeric keys missing.  A list may hold
\* the same listing several times (duplicate identifiers, identical values).
Catalog ==
    {Sample1, Sample2, Sample3, Studio} \cup {Without(Sample1, k) : k \in NumericKeys}

ListingLists == UNION {[1..n -> Catalog] : n \in 0..MaxListings}

\* Lists longer than the caller displays: one listing at every position
\* but the last, of a length of TopN + 1 .. TopN + MaxBeyondTop.
LongLists ==
    {[i \in 1..n |-> IF i < n THEN pair[1] ELSE pair[2]] :
        pair \in [1..2 -> Catalog], n \in (TopN + 1)..(TopN + MaxBeyondTop)}

\* The sample priorities, in percent.
SamplePriorities ==
    [price |-> 30, location |-> 25, size |-> 20, bedrooms |-> 15, age |-> 10]

PriorityKeys == {"price", "location", "size", "bedrooms", "age"}

Only(k, w) == [c \in PriorityKeys |-> IF c = k THEN w ELSE 0]

\* priorities: all zero, the sample, one criterion alone, and
\* weights that sum to 5.0.
PriorityChoices ==
    {SamplePriorities, [c \in PriorityKeys |-> 0], [c \in PriorityKeys |-> 100]}
        \cup {Only(k, 100) : k \in PriorityKeys}

SampleConstraints == [max_price |-> 500000, min_beds |-> 3, min_baths |-> 4]

\* Hard constraints: none given, the sample's, the sample's with one
\* constraint tightened (a price exactly at the bound, a negative bound,
\* more beds, more baths), a max_price alone, and the sample's without
\* min_beds.
ConstraintChoices ==
    {EmptyDict,
     SampleConstraints,
     [SampleConstraints EXCEPT !.max_price = 400000],
     [SampleConstraints EXCEPT !.max_price = -1],
     [SampleConstraints EXCEPT !.min_beds = 4],
     [SampleConstraints EXCEPT !.min_baths = 5],
     [max_price |-> 400000],
     [max_price |-> 500000, min_baths |-> 4]}

\* The constraints under which every choice of priorities is tried.
ScoringConstraintChoices ==
    {EmptyDict, SampleConstraints, [max_price |-> 500000, min_baths |-> 4]}

\* The dict d with the entry k: v added.
With(d, k, v) == [x \in DOMAIN d \cup {k} |-> IF x = k THEN v ELSE d[x]]

\* Attributes a listing has besides those the scorer reads: the distance to
\* another point of interest and a display attribute.
Decorations ==
    {EmptyDict,
     [distance_to_airport |-> 1, address |-> "12 Elm St"],
     [distance_to_airport |-> 9, address |-> "7 Oak Ave"]}

\* The listing l with the attributes d added.
Decorate(l, d) ==
    [k \in DOMAIN l \cup DOMAIN d |-> IF k \in DOMAIN d THEN d[k] ELSE l[k]]

\* Pairs of listings, each with or without additional attributes.
DecoratedLists ==
    {<<Decorate(a, d), Decorate(b, e)>> : a \in Catalog, b \in Catalog,
                                        d \in Decorations, e \in Decorations}

\* Preferences: every choice of constraints without a "priorities" entry
\* and with the sample priorities, and every choice of priorities under the
\* scoring constraints.
PreferenceChoices ==
    ConstraintChoices
        \cup {With(c, "priorities", SamplePriorities) : c \in ConstraintChoices}
        \cup {With(c, "priorities", p) : c \in ScoringConstraintChoices, p \in PriorityChoices}

\* The preferences tried on the pairs with additional attributes.
DecoratedPreferenceChoices ==
    {With(EmptyDict, "priorities", SamplePriorities),
     With(SampleConstraints, "priorities", SamplePriorities),
     With(EmptyDict, "priorities", Only("location", 100)),
     With(EmptyDict, "priorities", [c \in PriorityKeys |-> 100])}

\* The preferences tried on the long lists.
LongListPreferenceChoices ==
    {EmptyDict, With(SampleConstraints, "priorities", SamplePriorities),
     With(EmptyDict, "priorities", [c \in PriorityKeys |-> 100])}

----------------------------------------------------------------------------
(* Arithmetic on exact fractions.                                          *)

Abs(x) == IF x < 0 THEN -x ELSE x

RECURSIVE Gcd(_, _)
Gcd(a, b) == IF b = 0 THEN a ELSE Gcd(b, a % b)

Lcm(a, b) == (a \div Gcd(a, b)) * b

\* <<n, d>> in lowest terms; n >= 0 and d > 0 throughout the scorer.
Reduce(q) == LET g == Gcd(q[1], q[2]) IN <<q[1] \div g, q[2] \div g>>

Zero == <<0, 1>>

Add(p, q) ==
    LET d == Lcm(p[2], q[2])
    IN  Reduce(<<p[1] * (d \div p[2]) + q[1] * (d \div q[2]), d>>)

\* q times the integer k.
Scale(q, k) == Reduce(<<q[1] * k, q[2]>>)

\* The nearest integer to the fraction q >= 0, a tie going to the even one,
\* as numpy's round does.
RoundHalfEven(q) ==
    LET fl  == q[1] \div q[2]
        rem == q[1] % q[2]
    IN  IF 2 * rem < q[2] THEN fl
        ELSE IF 2 * rem > q[2] THEN fl + 1
        ELSE IF fl % 2 = 0 THEN fl ELSE fl + 1

----------------------------------------------------------------------------
(* pandas, as far as score_listings uses it.                               *)

\* dict.get(k, default)
Get(d, k, default) == IF k \in DOMAIN d THEN d[k] ELSE default

\* pd.DataFrame(list of dicts): the columns are the keys that any dict has,
\* and a dict without the key gets NaN in that column.
DataFrame(ls) ==
    LET columns == UNION {DOMAIN ls[i] : i \in 1..Len(ls)}
    IN  [columns |-> columns,
         rows |-> [i \in 1..Len(ls) |->
                     [c \in columns |-> IF c \in DOMAIN ls[i] THEN <<ls[i][c]>> ELSE NaN]]]

\* df[c] as a Series, by position.
Column(df, c) == [i \in 1..Len(df.rows) |-> df.rows[i][c]]

SetMax(S) == CHOOSE x \in S : \A y \in S : y <= x
SetMin(S) == CHOOSE x \in S : \A y \in S : x <= y

\* The values of a Series, NaN skipped (what min, max and std read).
Values(series) == {series[i][1] : i \in {j \in DOMAIN series : series[j] # NaN}}
Count(series) == Cardinality({j \in DOMAIN series : series[j] # NaN})

\* series.std() == 0.  std skips NaN and divides by count - 1, so it is NaN
\* (and the comparison False) with fewer than two values; with two or more
\* it is 0 exactly when they are all equal.
StdIsZero(series) == Count(series) >= 2 /\ Cardinality(Values(series)) = 1

\* (series - series.min()) / (series.max() - series.min()), one cell: NaN
\* for a NaN cell, and 0/0 = NaN when max = min.
MinMaxCell(series, i) ==
    IF series[i] = NaN THEN NaN
    ELSE LET lo == SetMin(Values(series))
             hi == SetMax(Values(series))
         IN  IF hi = lo THEN NaN ELSE Reduce(<<series[i][1] - lo, hi - lo>>)

\* HouseScorer._normalize
Normalize(series) ==
    IF StdIsZero(series) \/ Len(series) = 0
    THEN [i \in DOMAIN series |-> Zero]
    ELSE [i \in DOMAIN series |-> MinMaxCell(series, i)]

\* 100 - normalized * 100
Inverted(norm) ==
    [i \in DOMAIN norm |->
        IF norm[i] = NaN THEN NaN ELSE Reduce(<<100 * (norm[i][2] - norm[i][1]), norm[i][2]>>)]

\* normalized * 100
Direct(norm) ==
    [i \in DOMAIN norm |-> IF norm[i] = NaN THEN NaN ELSE Scale(norm[i], 100)]

----------------------------------------------------------------------------
(* HouseScorer.score_listings                                              *)

\* The three comparisons of the hard filter; a comparison with NaN is
\* False, and an absent max_price is float('inf').
PriceOk(row, prefs) ==
    row["price"] # NaN /\ ("max_price" \in DOMAIN prefs => row["price"][1] <= prefs["max_price"])
\* The beds comparison with the default of target_beds, 3, for an absent
\* min_beds.
BedsOkFromThree(row, prefs) ==
    row["beds"] # NaN /\ row["beds"][1] >= Get(prefs, "min_beds", 3)

BedsOk(row, prefs) ==
    row["beds"] # NaN /\ row["beds"][1] >= Get(prefs, "min_beds", 0)
BathsOk(row, prefs) ==
    row["baths"] # NaN /\ row["baths"][1] >= Get(prefs, "min_baths", 0)

\* The filter with | in place of &.
HardFilterAnyOf(df, prefs) ==
    [df EXCEPT !.rows =
        SelectSeq(@, LAMBDA row : PriceOk(row, prefs) \/ BedsOk(row, prefs) \/ BathsOk(row, prefs))]

\* df = df[(...) & (...) & (...)]: the rows kept, in their order.
HardFilter(df, prefs) ==
    [df EXCEPT !.rows =
        SelectSeq(@, LAMBDA row : PriceOk(row, prefs) /\ BedsOk(row, prefs) /\ BathsOk(row, prefs))]

\* Priorities that fall back on the documented example weights.
PrioritiesDefaulted(prefs) == Get(prefs, "priorities", SamplePriorities)

Priorities(prefs) == Get(prefs, "priorities", EmptyDict)

\* Weights are compared with 0 and multiplied as given: percent here.
Active(df, prefs, column, key) ==
    column \in df.columns /\ Get(Priorities(prefs), key, 0) > 0

\* A price score without the inversion: the dearest listing scores 100.
PriceScoreDirect(df) == Direct(Normalize(Column(df, "price")))

PriceScore(df) == Inverted(Normalize(Column(df, "price")))

\* A location score on the distance to the nearest point of interest: the
\* least of the listing's distance_to_<poi> values.
LocationScoreNearest(df) ==
    LET pois == df.columns \cap {"distance_to_downtown", "distance_to_airport"}
    IN  Inverted(Normalize(
            [i \in 1..Len(df.rows) |->
                LET present == {df.rows[i][c][1] : c \in {p \in pois : df.rows[i][p] # NaN}}
                IN  IF present = {} THEN NaN ELSE <<SetMin(present)>>]))

LocationScore(df) == Inverted(Normalize(Column(df, "distance_to_downtown")))

SizeScore(df) == Direct(Normalize(Column(df, "sqft")))

\* np.abs(df["beds"] - target_beds), target_beds = get("min_beds", 3)
BedDiff(df, prefs) ==
    LET beds == Column(df, "beds")
    IN  [i \in DOMAIN beds |->
            IF beds[i] = NaN THEN NaN ELSE <<Abs(beds[i][1] - Get(prefs, "min_beds", 3))>>]

BedroomScore(df, prefs) == Inverted(Normalize(BedDiff(df, prefs)))

\* current_year - df["year_built"].fillna(1900)
Age(df) ==
    LET built == Column(df, "year_built")
    IN  [i \in DOMAIN built |-> <<2024 - (IF built[i] = NaN THEN 1900 ELSE built[i][1])>>]

AgeScore(df) == Inverted(Normalize(Age(df)))

\* The columns of the scores frame, in the order they are added.
Scores(df, prefs) ==
    (IF Active(df, prefs, "price", "price")
     THEN <<[name |-> "price_score", series |-> PriceScore(df)]>> ELSE <<>>)
    \o (IF Active(df, prefs, "distance_to_downtown", "location")
        THEN <<[name |-> "location_score", series |-> LocationScore(df)]>> ELSE <<>>)
    \o (IF Active(df, prefs, "sqft", "size")
        THEN <<[name |-> "size_score", series |-> SizeScore(df)]>> ELSE <<>>)
    \o (IF Active(df, prefs, "beds", "bedrooms")
        THEN <<[name |-> "bedroom_score", series |-> BedroomScore(df, prefs)]>> ELSE <<>>)
    \o (IF Active(df, prefs, "year_built", "age")
        THEN <<[name |-> "age_score", series |-> AgeScore(df)]>> ELSE <<>>)

\* component.replace("_score", "") on the five column names.
WeightKey(component) ==
    CASE component = "price_score" -> "price"
      [] component = "location_score" -> "location"
      [] component = "size_score" -> "size"
      [] component = "bedroom_score" -> "bedroom"
      [] component = "age_score" -> "age"

\* scores[component].fillna(50), one cell
Fillna50(cell) == IF cell = NaN THEN <<50, 1>> ELSE cell

\* final_scores after the first n columns of scores, at position i, times
\* 100: the sum of fillna(50) * weight with the weights in percent.
RECURSIVE FinalScore(_, _, _, _)
FinalScore(scores, priorities, n, i) ==
    IF n = 0 THEN Zero
    ELSE Add(FinalScore(scores, priorities, n - 1, i),
             Scale(Fillna50(scores[n].series[i]), Get(priorities, WeightKey(scores[n].name), 0)))

\* df["score"] = final_scores.round(2), in cents
ScoreColumn(df, prefs) ==
    Bind(Scores(df, prefs), LAMBDA scores :
        [i \in 1..Len(df.rows) |->
            RoundHalfEven(FinalScore(scores, Priorities(prefs), Len(scores), i))])

\* rank(ascending=False, method="min"): one more than the number of rows
\* with a higher score.
MinRank(score) ==
    [i \in DOMAIN score |-> 1 + Cardinality({k \in DOMAIN score : score[k] > score[i]})]

\* rank(ascending=False, method="first"): rows of equal score are ranked
\* in their order.
FirstRank(score) ==
    [i \in DOMAIN score |->
        1 + Cardinality({k \in DOMAIN score :
                            score[k] > score[i] \/ (score[k] = score[i] /\ k < i)})]

\* A rank counted from 0: the number of distinct higher scores.
DenseRankFromZero(score) ==
    [i \in DOMAIN score |->
        Cardinality({score[j] : j \in {k \in DOMAIN score : score[k] > score[i]}})]

\* rank(method="dense") with the default ascending=True: one more than the
\* number of distinct lower scores.
DenseRankAscending(score) ==
    [i \in DOMAIN score |->
        1 + Cardinality({score[j] : j \in {k \in DOMAIN score : score[k] < score[i]}})]

\* rank(ascending=False, method="dense"): one more than the number of
\* distinct higher scores.
DenseRank(score) ==
    [i \in DOMAIN score |->
        1 + Cardinality({score[j] : j \in {k \in DOMAIN score : score[k] > score[i]}})]

\* sort_values("score") with the default ascending=True.
SortOrderAscending(score) ==
    LET Before(j, i) == score[j] < score[i] \/ (score[j] = score[i] /\ j < i)
    IN  [k \in DOMAIN score |->
            CHOOSE i \in DOMAIN score :
                Cardinality({j \in DOMAIN score : Before(j, i)}) = k - 1]

\* sort_values("score", ascending=False): the positions in the order of
\* the sorted frame; rows of equal score keep their order (numpy sorts so
\* few elements by insertion).
SortOrder(score) ==
    LET Before(j, i) == score[j] > score[i] \/ (score[j] = score[i] /\ j < i)
    IN  [k \in DOMAIN score |->
            CHOOSE i \in DOMAIN score :
                Cardinality({j \in DOMAIN score : Before(j, i)}) = k - 1]

\* The records of the first TopN rows only (head(10) before to_dict).
ToRecordsHead(df, score, rank) ==
    Bind(SortOrder(score), LAMBDA order :
        [k \in 1..(IF Len(df.rows) < TopN THEN Len(df.rows) ELSE TopN) |->
            [c \in df.columns \cup {"score", "rank"} |->
                IF c = "score" THEN score[order[k]]
                ELSE IF c = "rank" THEN rank[order[k]]
                ELSE df.rows[order[k]][c]]])

\* df.to_dict("records") of the frame with its score and rank columns.
ToRecords(df, score, rank) ==
    Bind(SortOrder(score), LAMBDA order :
        [k \in 1..Len(df.rows) |->
            [c \in df.columns \cup {"score", "rank"} |->
                IF c = "score" THEN score[order[k]]
                ELSE IF c = "rank" THEN rank[order[k]]
                ELSE df.rows[order[k]][c]]])

\* drop_duplicates(subset="id"): the first row of every identifier.
RECURSIVE DropDuplicates(_)
DropDuplicates(rows) ==
    IF rows = <<>> THEN <<>>
    ELSE LET kept == DropDuplicates(SubSeq(rows, 1, Len(rows) - 1))
             last == rows[Len(rows)]
         IN  IF \E k \in 1..Len(kept) : kept[k]["id"] = last["id"]
             THEN kept ELSE Append(kept, last)

\* The hard filter followed by drop_duplicates(subset="id").
FilteredDeduplicated(ls, prefs) ==
    [HardFilter(DataFrame(ls), prefs) EXCEPT !.rows = DropDuplicates(@)]

\* The frame that is scored: the input after the hard filter.
Filtered(ls, prefs) == HardFilter(DataFrame(ls), prefs)

ScoreListings(ls, prefs) ==
    IF ls = <<>> THEN Return(<<>>)
    ELSE IF "price" \notin DataFrame(ls).columns THEN Raise("KeyError: 'price'")
    ELSE IF "beds" \notin DataFrame(ls).columns THEN Raise("KeyError: 'beds'")
    ELSE IF "baths" \notin DataFrame(ls).columns THEN Raise("KeyError: 'baths'")
    ELSE Bind(Filtered(ls, prefs), LAMBDA df :
            IF df.rows = <<>> THEN Return(<<>>)
            ELSE Bind(ScoreColumn(df, prefs), LAMBDA score :
                    Bind(DenseRank(score), LAMBDA rank :
                        Return(ToRecords(df, score, rank)))))

----------------------------------------------------------------------------
(* The caller.                                                             *)

\* src/app.py:50-59: the session state before the first run of the script.
SessionStart ==
    /\ phase = "start"
    /\ embedder = "None" /\ qa = "None" /\ conv_qa = "None"
    /\ messages = <<>>
    /\ chat_history = <<>>
    /\ raised = ""

\* fetch_nationwide_listings before its loop.
FetchStart ==
    /\ city = 0
    /\ all_listings = <<>>
    /\ successful_cities = 0
    /\ failed_cities = <<>>
    /\ log = <<>>
    /\ returned = FALSE

\* No call of the scorer under way: the other specifications keep its
\* variables here.
ScorerStart ==
    /\ listings = <<>>
    /\ user_preferences = EmptyDict
    /\ scaler = "MinMaxScaler()"
    /\ result = NotCalled
    /\ prev = NotCalled

\* A scorer that writes the score into the caller's dicts.
ListingsScoredInPlace(ls) == [i \in 1..Len(ls) |-> With(ls[i], "score", 0)]

\* pd.DataFrame(listings) copies the dicts' values into the frame, and every
\* later step works on the frame: the caller's list is what it was.
ListingsAfterCall(ls) == ls

Init ==
    /\ \/ listings \in ListingLists /\ user_preferences \in PreferenceChoices
       \/ listings \in LongLists /\ user_preferences \in LongListPreferenceChoices
       \/ listings \in DecoratedLists /\ user_preferences \in DecoratedPreferenceChoices
    /\ scaler = "MinMaxScaler()"
    /\ result = NotCalled
    /\ prev = NotCalled
    /\ SessionStart
    /\ FetchStart

\* HouseScorer(): a new instance, with an unfitted scaler.
HouseScorer ==
    /\ scaler' = "MinMaxScaler()"
    /\ UNCHANGED <<listings, user_preferences, result, prev, sessionVars, fetchVars>>

\* A scorer that fits self.scaler on its first call and normalizes with the
\* fitted scaler afterwards.
score_listings_fitting ==
    /\ result' = IF scaler = "MinMaxScaler()" THEN ScoreListings(listings, user_preferences)
                 ELSE ScoreListings(listings, With(user_preferences, "priorities", EmptyDict))
    /\ prev' = result
    /\ scaler' = "fitted"
    /\ UNCHANGED <<listings, user_preferences, sessionVars, fetchVars>>

\* scorer.score_listings(listings, user_preferences)
score_listings ==
    /\ result' = ScoreListings(listings, user_preferences)
    /\ prev' = result
    /\ listings' = ListingsAfterCall(listings)
    /\ UNCHANGED <<user_preferences, scaler, sessionVars, fetchVars>>

Next == HouseScorer \/ score_listings

Spec == Init /\ [][Next]_vars

----------------------------------------------------------------------------
(* The session of the Streamlit app, src/app.py.  Every interaction runs    *)
(* the script once; an action is one such run.                             *)

Questions == {"Which is cheapest?", "Near downtown?"}
Answers == {"Listing 1.", "Listing 2."}

\* The two messages ConversationalHouseQA.ask stores, and the entry the
\* app appends to its chat_history.
Exchange(q, a) == <<[type |-> "human", content |-> q], [type |-> "ai", content |-> a]>>
Entry(q, a) == [q |-> q, a |-> a]

\* The first run of the script: embedder is None, so load_ai_system() is
\* called; it returns the three objects, or (None, None, None) after an
\* exception.  st.cache_resource keeps what it returned, so later runs that
\* find embedder None get (None, None, None) again.
load_ai_system ==
    /\ phase = "start"
    /\ \E loaded \in BOOLEAN :
          IF loaded
          THEN embedder' = "ListingEmbedder" /\ qa' = "HouseQA"
               /\ conv_qa' = "ConversationalHouseQA"
          ELSE embedder' = "None" /\ qa' = "None" /\ conv_qa' = "None"
    /\ phase' = "rendered"
    /\ raised' = ""
    /\ UNCHANGED <<messages, chat_history, scorerVars, fetchVars>>

\* Ask in the mode "Single Questions": st.session_state.qa.ask(question).
ask_single_question ==
    /\ phase = "rendered"
    /\ \E q \in Questions :
          IF qa = "None" THEN raised' = "AttributeError"
          ELSE raised' \in {"", "Exception"}
    /\ UNCHANGED <<phase, embedder, qa, conv_qa, messages, chat_history, scorerVars, fetchVars>>

\* Ask in the mode "Conversation (with memory)":
\* result = st.session_state.conv_qa.ask(question), which stores the
\* question and the answer in the memory of conv_qa unless the chain
\* raises first, then chat_history.append({"q": ..., "a": ...}).
ask_in_conversation ==
    /\ phase = "rendered"
    /\ Len(chat_history) < MaxChat
    /\ \E q \in Questions :
          IF conv_qa = "None"
          THEN raised' = "AttributeError" /\ UNCHANGED <<messages, chat_history>>
          ELSE \/ \E a \in Answers :
                     /\ messages' = messages \o Exchange(q, a)
                     /\ chat_history' = Append(chat_history, Entry(q, a))
                     /\ raised' = ""
               \/ raised' = "Exception" /\ UNCHANGED <<messages, chat_history>>
    /\ UNCHANGED <<phase, embedder, qa, conv_qa, scorerVars, fetchVars>>

\* Clear History: conv_qa.clear_history(), then chat_history = [].
clear_history ==
    /\ phase = "rendered"
    /\ IF conv_qa = "None"
       THEN raised' = "AttributeError" /\ UNCHANGED <<messages, chat_history>>
       ELSE messages' = <<>> /\ chat_history' = <<>> /\ raised' = ""
    /\ UNCHANGED <<phase, embedder, qa, conv_qa, scorerVars, fetchVars>>

\* Fetch New Listings.  With listings found the session gets a new
\* embedder, HouseQA and ConversationalHouseQA (whose memory is empty); the
\* single-city handler stores the embedder before create_vectorstore, which
\* may raise; with no listings found nothing changes.
fetch_new_listings ==
    /\ phase = "rendered"
    /\ \/ /\ embedder' = "ListingEmbedder" /\ qa' = "HouseQA"
          /\ conv_qa' = "ConversationalHouseQA"
          /\ messages' = <<>>
          /\ raised' = ""
       \/ /\ embedder' = "ListingEmbedder"
          /\ raised' = "Exception"
          /\ UNCHANGED <<qa, conv_qa, messages>>
       \/ /\ raised' = ""
          /\ UNCHANGED <<embedder, qa, conv_qa, messages>>
    /\ UNCHANGED <<phase, chat_history, scorerVars, fetchVars>>

SessionInit == ScorerStart /\ SessionStart /\ FetchStart

SessionNext ==
    \/ load_ai_system
    \/ ask_single_question
    \/ ask_in_conversation
    \/ clear_history
    \/ fetch_new_listings

SessionSpec == SessionInit /\ [][SessionNext]_vars

----------------------------------------------------------------------------
(* fetch_nationwide_listings, src/data_pipeline.py: one action per          *)
(* iteration of the loop over the cities, by what the iteration meets.     *)

\* raw_listings is not empty, and cleaning and enriching succeed.
city_has_listings ==
    /\ ~returned /\ city < NumCities
    /\ \E n \in 1..MaxPerCity :
          all_listings' = all_listings \o [k \in 1..n |-> city + 1]
    /\ successful_cities' = successful_cities + 1
    /\ log' = Append(log, "ok")
    /\ city' = city + 1
    /\ UNCHANGED <<failed_cities, returned, scorerVars, sessionVars>>

\* raw_listings is empty.
city_has_none ==
    /\ ~returned /\ city < NumCities
    /\ failed_cities' = Append(failed_cities, city + 1)
    /\ log' = Append(log, "none")
    /\ city' = city + 1
    /\ UNCHANGED <<all_listings, successful_cities, returned, scorerVars, sessionVars>>

\* An exception handler that goes on with the next city without recording
\* the failed one.
city_raises_unrecorded ==
    /\ ~returned /\ city < NumCities
    /\ log' = Append(log, "error")
    /\ city' = city + 1
    /\ UNCHANGED <<all_listings, successful_cities, failed_cities, returned,
                   scorerVars, sessionVars>>

\* The fetch, the cleaning or the enriching raises: the handler records
\* the city as failed and continues; nothing was added to all_listings.
city_raises ==
    /\ ~returned /\ city < NumCities
    /\ failed_cities' = Append(failed_cities, city + 1)
    /\ log' = Append(log, "error")
    /\ city' = city + 1
    /\ UNCHANGED <<all_listings, successful_cities, returned, scorerVars, sessionVars>>

\* The loop is over: return all_listings.
return_all_listings ==
    /\ ~returned /\ city = NumCities
    /\ returned' = TRUE
    /\ UNCHANGED <<city, all_listings, successful_cities, failed_cities, log,
                   scorerVars, sessionVars>>

FetchInit == ScorerStart /\ SessionStart /\ FetchStart

FetchNext == city_has_listings \/ city_has_none \/ city_raises \/ return_all_listings

FetchSpec == FetchInit /\ [][FetchNext]_vars

----------------------------------------------------------------------------
(* Properties.                                                             *)

Returned == result.kind = "return"
Output == result.value

\* The caller's listing dict l satisfies the three hard constraints, read
\* off the dicts: a missing value satisfies none, a missing constraint
\* excludes nothing.
Passes(l, prefs) ==
    /\ {"price", "beds", "baths"} \subseteq DOMAIN l
    /\ "max_price" \in DOMAIN prefs => l["price"] <= prefs["max_price"]
    /\ "min_beds" \in DOMAIN prefs => l["beds"] >= prefs["min_beds"]
    /\ "min_baths" \in DOMAIN prefs => l["baths"] >= prefs["min_baths"]

Passing == {i \in 1..Len(listings) : Passes(listings[i], user_preferences)}

\* The caller's listing i lies exactly on one of the given bounds.
AtBound(i) ==
    /\ i \in Passing
    /\ \/ "max_price" \in DOMAIN user_preferences
          /\ listings[i]["price"] = user_preferences["max_price"]
       \/ "min_beds" \in DOMAIN user_preferences
          /\ listings[i]["beds"] = user_preferences["min_beds"]
       \/ "min_baths" \in DOMAIN user_preferences
          /\ listings[i]["baths"] = user_preferences["min_baths"]

\* Output record r carries the values of the caller's listing l.
SameListing(r, l) == \A c \in DOMAIN l : r[c] = <<l[c]>>

\* C1. Filtering invariant: every record of the output has a price, a beds
\* and a baths value within the given bounds (price <= max_price, beds >=
\* min_beds, baths >= min_baths), and the bounds are inclusive: a listing
\* that passes with a value exactly on a bound is in the output.
C1_FilteringInvariant ==
    Returned =>
        /\ \A k \in 1..Len(Output) :
              /\ Output[k]["price"] # NaN /\ Output[k]["beds"] # NaN /\ Output[k]["baths"] # NaN
              /\ "max_price" \in DOMAIN user_preferences
                    => Output[k]["price"][1] <= user_preferences["max_price"]
              /\ "min_beds" \in DOMAIN user_preferences
                    => Output[k]["beds"][1] >= user_preferences["min_beds"]
              /\ "min_baths" \in DOMAIN user_preferences
                    => Output[k]["baths"][1] >= user_preferences["min_baths"]
        /\ \A i \in 1..Len(listings) :
              AtBound(i) => \E k \in 1..Len(Output) : SameListing(Output[k], listings[i])

\* A call that kept a listing priced exactly at max_price and dropped
\* another listing.
C1_Witness ==
    /\ Returned
    /\ "max_price" \in DOMAIN user_preferences
    /\ \E k \in 1..Len(Output) : Output[k]["price"] = <<user_preferences["max_price"]>>
    /\ Len(Output) < Len(listings)

\* The frame the latest call scored, and the position in it of each output
\* record.
Frame == Filtered(listings, user_preferences)
FrameOrder == SortOrder(ScoreColumn(Frame, user_preferences))

\* The column a criterion reads, and its component scores over the frame.
SourceColumn(criterion) ==
    CASE criterion = "price" -> "price"
      [] criterion = "location" -> "distance_to_downtown"
      [] criterion = "size" -> "sqft"
      [] criterion = "bedrooms" -> "beds"
      [] criterion = "age" -> "year_built"

Component(df, prefs, criterion) ==
    CASE criterion = "price" -> PriceScore(df)
      [] criterion = "location" -> LocationScore(df)
      [] criterion = "size" -> SizeScore(df)
      [] criterion = "bedrooms" -> BedroomScore(df, prefs)
      [] criterion = "age" -> AgeScore(df)

Criteria == <<"price", "location", "size", "bedrooms", "age">>

\* The sum, over the first n criteria that are active, of the component
\* score of row i times the weight given for the criterion (times 100).
RECURSIVE WeightedSum(_, _, _, _)
WeightedSum(df, prefs, n, i) ==
    IF n = 0 THEN Zero
    ELSE Bind(WeightedSum(df, prefs, n - 1, i), LAMBDA sum :
            IF Active(df, prefs, SourceColumn(Criteria[n]), Criteria[n])
            THEN Add(sum, Scale(Fillna50(Component(df, prefs, Criteria[n])[i]),
                                Priorities(prefs)[Criteria[n]]))
            ELSE sum)

\* C2. Weighted combination: the score of every output listing is the sum,
\* over the active criteria among price, location, size, bedrooms and age,
\* of its component score times the raw weight of that criterion (the sum
\* taken at the two decimals a score is reported with).
C2_WeightedCombination ==
    (Returned /\ Output # <<>>) =>
        Bind(Frame, LAMBDA df : Bind(FrameOrder, LAMBDA order :
            \A k \in 1..Len(Output) :
                Output[k]["score"] =
                    RoundHalfEven(WeightedSum(df, user_preferences, Len(Criteria), order[k]))))

\* What the scorer computes instead: the rounded weighted sum over the
\* active criteria among price, location, size and age alone, the column
\* bedroom_score being looked up under the key "bedroom".
ScoreOmitsBedrooms ==
    (Returned /\ Output # <<>>) =>
        Bind(Frame, LAMBDA df : Bind(FrameOrder, LAMBDA order :
            \A k \in 1..Len(Output) :
                Output[k]["score"] =
                    RoundHalfEven(WeightedSum(df, Bind(Priorities(user_preferences), LAMBDA p :
                        With(user_preferences, "priorities",
                             [c \in DOMAIN p |-> IF c = "bedrooms" THEN 0 ELSE p[c]])),
                        Len(Criteria), order[k]))))

OutputScores == {Output[k]["score"] : k \in 1..Len(Output)}
OutputRanks == {Output[k]["rank"] : k \in 1..Len(Output)}

\* C3. Dense-rank law: in a non-empty output two records have the same
\* rank exactly when they have the same score, every record with the
\* highest score has rank 1, a lower score has a greater rank, and the
\* ranks used are exactly 1..k for k distinct scores.
C3_DenseRankLaw ==
    (Returned /\ Output # <<>>) =>
        /\ \A a, b \in 1..Len(Output) :
              /\ (Output[a]["rank"] = Output[b]["rank"]) <=> (Output[a]["score"] = Output[b]["score"])
              /\ Output[a]["score"] > Output[b]["score"] => Output[a]["rank"] < Output[b]["rank"]
        /\ \A a \in 1..Len(Output) :
              Output[a]["score"] = SetMax(OutputScores) => Output[a]["rank"] = 1
        /\ OutputRanks = 1..Cardinality(OutputScores)

\* An output in which two records tie for the highest score and a third
\* has a lower one: a ranking by position would give the third rank 3.
C3_Witness ==
    /\ Returned
    /\ Len(Output) = 3
    /\ Output[1]["score"] = Output[2]["score"]
    /\ Output[3]["score"] < Output[2]["score"]
    /\ Output[3]["rank"] = 2

\* C4. Rank monotonicity: along the returned sequence the scores never
\* increase and the ranks never decrease.
C4_RankMonotonicity ==
    Returned =>
        \A i, j \in 1..Len(Output) :
            i < j => /\ Output[i]["score"] >= Output[j]["score"]
                     /\ Output[i]["rank"] <= Output[j]["rank"]

\* An output of three records with three different scores whose best
\* record was the last listing of the input.
C4_Witness ==
    /\ Returned
    /\ Len(Output) = 3 /\ Len(listings) = 3
    /\ Output[1]["score"] > Output[2]["score"]
    /\ Output[2]["score"] > Output[3]["score"]
    /\ SameListing(Output[1], listings[3])
    /\ ~SameListing(Output[1], listings[1])

\* C5. Missing-component fallback: for every listing that is scored and
\* each of the criteria location and size, when the criterion is active and
\* the listing has no value for it, the listing's component score for the
\* criterion is exactly 50, whatever the other listings hold.
C5_MissingComponentFallback ==
    (Returned /\ Output # <<>>) =>
        Bind(Frame, LAMBDA df :
            \A criterion \in {"location", "size"} :
                Active(df, user_preferences, SourceColumn(criterion), criterion) =>
                    \A i \in 1..Len(df.rows) :
                        df.rows[i][SourceColumn(criterion)] = NaN =>
                            Fillna50(Component(df, user_preferences, criterion)[i]) = <<50, 1>>)

\* C6. score_listings never ends in an error: whatever keys the listings
\* lack, a call returns a sequence.
C6_NeverRaises == result.kind # "raise"

\* C7. Empty-input law: a call on the empty list, or on a list of which no
\* listing passes the hard filter, returns the empty sequence.
C7_EmptyInputLaw ==
    (result # NotCalled /\ Passing = {}) => result = Return(<<>>)

\* Every weight is 0, or no priorities are given.
ZeroWeights ==
    "priorities" \in DOMAIN user_preferences =>
        \A c \in DOMAIN user_preferences["priorities"] : user_preferences["priorities"][c] = 0

\* C8. Zero-weight neutrality: with every weight 0, or with no priorities,
\* a call on a list of which some listing passes the hard filter returns
\* one record for each passing listing, each with score 0 and rank 1.
C8_ZeroWeightNeutrality ==
    (result # NotCalled /\ ZeroWeights /\ Passing # {}) =>
        /\ Returned
        /\ Len(Output) = Cardinality(Passing)
        /\ \A k \in 1..Len(Output) : Output[k]["score"] = 0 /\ Output[k]["rank"] = 1

\* A call without priorities that returned two listings with different
\* prices, sizes, years and distances.
C8_Witness ==
    /\ "priorities" \notin DOMAIN user_preferences
    /\ Returned
    /\ Len(Output) >= 2
    /\ \A c \in {"price", "sqft", "year_built", "distance_to_downtown"} :
          Output[1][c] # NaN /\ Output[2][c] # NaN /\ Output[1][c] # Output[2][c]

Called == result.kind # "not called"

\* Output record r is the row of the caller's listing l: the values of l
\* under its keys, NaN in the other columns.
RecordOf(r, l) ==
    /\ DOMAIN l \subseteq DOMAIN r
    /\ \A c \in DOMAIN r \ {"score", "rank"} : r[c] = IF c \in DOMAIN l THEN <<l[c]>> ELSE NaN

\* for listing in scored_listings[:10]: what the caller shows of the output.
Displayed == SubSeq(Output, 1, IF Len(Output) < TopN THEN Len(Output) ELSE TopN)

\* C11. Completeness: every input listing that satisfies the three hard
\* constraints is in the returned sequence, with a score and a rank, as
\* many times as it is in the input; the sequence has one record per
\* passing listing however many there are (more than the ten the caller
\* shows included): score_listings does not truncate.
C11_Completeness ==
    (Called /\ Passing # {}) =>
        /\ Returned
        /\ Len(Output) = Cardinality(Passing)
        /\ \A i \in Passing :
              /\ \E k \in 1..Len(Output) :
                    /\ RecordOf(Output[k], listings[i])
                    /\ {"score", "rank"} \subseteq DOMAIN Output[k]
              /\ Cardinality({k \in 1..Len(Output) : RecordOf(Output[k], listings[i])})
                    = Cardinality({j \in Passing : listings[j] = listings[i]})

\* A call on more than ten listings dropped one and returned more than the
\* ten records the caller shows.
C11_Witness ==
    /\ Returned
    /\ Len(Output) > TopN
    /\ Len(Output) < Len(listings)
    /\ Len(Displayed) = TopN

\* The identifiers of the caller's listings.
Identifiers == {listings[i]["id"] : i \in 1..Len(listings)}

\* C12 as stated. The output is de-duplicated: no two records of the
\* returned sequence have the same identifier, whatever the input
\* (several input records of one identifier included).
C12_Deduplicated ==
    Returned =>
        \A a, b \in 1..Len(Output) : a # b => Output[a]["id"] # Output[b]["id"]

\* C12. The scorer removes no duplicates: for every identifier the returned
\* sequence has as many records as the input has passing listings of that
\* identifier, so its identifiers are distinct exactly when those of the
\* passing input listings are.
C12_OneRecordPerListing ==
    Returned =>
        \A x \in Identifiers :
            Cardinality({k \in 1..Len(Output) : Output[k]["id"] = <<x>>})
                = Cardinality({i \in Passing : listings[i]["id"] = x})

\* A call returned two records of one identifier with different scores,
\* and a record of another identifier.
C12_Witness ==
    /\ Returned
    /\ \E a, b, c \in 1..Len(Output) :
          /\ Output[a]["id"] = Output[b]["id"]
          /\ Output[a]["score"] # Output[b]["score"]
          /\ Output[c]["id"] # Output[a]["id"]

\* The preferences of the sample run.
SamplePreferences == With(SampleConstraints, "priorities", SamplePriorities)

\* The input is the three sample listings, in any order, with the sample
\* preferences.
SampleRun ==
    /\ Len(listings) = 3
    /\ {listings[i] : i \in 1..3} = {Sample1, Sample2, Sample3}
    /\ user_preferences = SamplePreferences

\* C13. Reference scenario: for the three sample listings and the sample
\* preferences the call returns all three listings, and listing 2 has the
\* strictly highest score and is the only record with rank 1.
C13_ReferenceScenario ==
    (Called /\ SampleRun) =>
        /\ Returned
        /\ Len(Output) = 3
        /\ \A l \in {Sample1, Sample2, Sample3} :
              \E k \in 1..3 : RecordOf(Output[k], l)
        /\ \A k \in 1..3 :
              IF Output[k]["id"] = <<"2">>
              THEN /\ Output[k]["rank"] = 1
                   /\ \A j \in 1..3 : j # k => Output[j]["score"] < Output[k]["score"]
              ELSE Output[k]["rank"] > 1

\* The sample run was made with the listings in the order of the sample,
\* and returned listing 2 first with a score of 85.0.
C13_Witness ==
    /\ Returned
    /\ listings = <<Sample1, Sample2, Sample3>>
    /\ user_preferences = SamplePreferences
    /\ Output[1]["id"] = <<"2">>
    /\ Output[1]["score"] = 8500

\* C14. Single-listing input: when the input is one listing and it
\* satisfies the preferences' hard constraints, whatever the preferences,
\* the output is exactly one record, that listing's, and its rank is 1.
C14_SingleListing ==
    (Called /\ Len(listings) = 1 /\ Passing = {1}) =>
        /\ Returned
        /\ Len(Output) = 1
        /\ RecordOf(Output[1], listings[1])
        /\ Output[1]["rank"] = 1

\* A call on one listing that meets the given bounds returned it with a
\* score above 0.
C14_Witness ==
    /\ Returned
    /\ Len(listings) = 1
    /\ {"max_price", "min_beds", "min_baths"} \subseteq DOMAIN user_preferences
    /\ Len(Output) = 1
    /\ Output[1]["score"] > 0

\* Listings a and b have the same price, beds, baths, sqft, year_built and
\* distance (a value missing from one is missing from the other).
SameValues(a, b) ==
    \A c \in NumericKeys :
        /\ c \in DOMAIN a <=> c \in DOMAIN b
        /\ c \in DOMAIN a => a[c] = b[c]

\* C15. Two listings with identical price, beds, baths, sqft, year_built
\* and distance that both pass the filter get identical scores and both
\* get rank 1: no record has rank 2.
C15_IdenticalListings ==
    (/\ Called
     /\ Len(listings) = 2
     /\ Passing = {1, 2}
     /\ SameValues(listings[1], listings[2])) =>
        /\ Returned
        /\ Len(Output) = 2
        /\ Output[1]["score"] = Output[2]["score"]
        /\ Output[1]["rank"] = 1 /\ Output[2]["rank"] = 1

\* A call on two identical listings under weights above 0 returned both
\* with the same score, above 0.
C15_Witness ==
    /\ Returned
    /\ Len(listings) = 2
    /\ SameValues(listings[1], listings[2])
    /\ Len(Output) = 2
    /\ Output[1]["score"] = Output[2]["score"]
    /\ Output[1]["score"] > 0

\* The constraints the preferences do not give.
AbsentConstraints == {"max_price", "min_beds", "min_baths"} \ DOMAIN user_preferences

\* Listing l has a price, beds and baths, and meets the constraints with an
\* absent max_price excluding no price and an absent min_beds or min_baths
\* standing for 0.
PassesWithDefaults(l, prefs) ==
    /\ {"price", "beds", "baths"} \subseteq DOMAIN l
    /\ "max_price" \in DOMAIN prefs => l["price"] <= prefs["max_price"]
    /\ l["beds"] >= (IF "min_beds" \in DOMAIN prefs THEN prefs["min_beds"] ELSE 0)
    /\ l["baths"] >= (IF "min_baths" \in DOMAIN prefs THEN prefs["min_baths"] ELSE 0)

\* C16. Permissive defaults: when max_price is absent no listing that has a
\* price is excluded for its price, and an absent min_beds or min_baths is
\* treated as 0, so no listing with a non-negative beds (baths) value is
\* excluded for it: every listing that meets the constraints that are
\* given is returned.
C16_PermissiveDefaults ==
    (Called /\ AbsentConstraints # {}) =>
        \A i \in 1..Len(listings) :
            PassesWithDefaults(listings[i], user_preferences) =>
                Returned /\ \E k \in 1..Len(Output) : RecordOf(Output[k], listings[i])

\* A call without any of the three constraints returned the highest-priced
\* listing and the listing with 0 beds.
C16_Witness ==
    /\ Returned
    /\ AbsentConstraints = {"max_price", "min_beds", "min_baths"}
    /\ \E k \in 1..Len(Output) : Output[k]["price"] = <<450000>>
    /\ \E k \in 1..Len(Output) : Output[k]["beds"] = <<0>>

\* The caller's listings without a price, a beds or a baths value.
Incomplete == {i \in 1..Len(listings) : ~({"price", "beds", "baths"} \subseteq DOMAIN listings[i])}

\* C17. A listing whose price, beds or baths is missing never appears in
\* the output, whatever the preferences (none included), and its presence
\* in the input does not make the call fail: the call returns, and returns
\* the records of the complete listings that pass.
C17_IncompleteExcluded ==
    (Called /\ Incomplete # {}) =>
        /\ Returned
        /\ Len(Output) = Cardinality(Passing)
        /\ \A k \in 1..Len(Output) :
              Output[k]["price"] # NaN /\ Output[k]["beds"] # NaN /\ Output[k]["baths"] # NaN

\* The criteria that are active on the scored frame.
ActiveCriteria ==
    {c \in {"price", "location", "size", "bedrooms", "age"} :
        Active(Frame, user_preferences, SourceColumn(c), c)}

\* Every row of the scored frame has the same value, none missing, in the
\* column criterion c reads.
ConstantColumn(c) ==
    /\ \A i \in 1..Len(Frame.rows) : Frame.rows[i][SourceColumn(c)] # NaN
    /\ Cardinality(Values(Column(Frame, SourceColumn(c)))) = 1

\* The component score of a criterion whose normalized values are all 0.
DegenerateScore(c) == IF c = "size" THEN <<0, 1>> ELSE <<100, 1>>

\* C18. Degenerate normalization: for an active criterion whose values are
\* identical across the filtered set, and for a filtered set of one
\* listing, every normalized value is 0, so every listing gets the same
\* component score, 100 for price, location, bedrooms and age and 0 for
\* size; the one-listing case and the constant-value case agree.
C18_DegenerateNormalization ==
    (Returned /\ Output # <<>>) =>
        \A c \in ActiveCriteria :
            ConstantColumn(c) =>
                \A i \in 1..Len(Frame.rows) :
                    Component(Frame, user_preferences, c)[i] = DegenerateScore(c)

\* The preferences with the weight of criterion c set to 0.
WithoutWeight(prefs, c) ==
    IF "priorities" \in DOMAIN prefs /\ c \in DOMAIN prefs["priorities"]
    THEN [prefs EXCEPT !["priorities"][c] = 0]
    ELSE prefs

\* No listing that passed the filter has the attribute criterion c reads.
NoneHas(c) ==
    \A i \in Passing : SourceColumn(c) \notin DOMAIN listings[i]

\* C19. A criterion contributes to the score only when its weight is above
\* 0 and its source attribute is present in at least one listing that
\* passed the filter: when no filtered listing has the attribute
\* (distance_to_downtown, sqft, year_built) the criterion contributes 0 to
\* every score, that is, the call returns what it returns with the
\* criterion's weight at 0.
C19_AbsentAttributeContributesNothing ==
    (Returned /\ Output # <<>>) =>
        \A c \in {"location", "size", "age"} :
            NoneHas(c) =>
                result = ScoreListings(listings, WithoutWeight(user_preferences, c))

\* |beds - min_beds| over the scored frame, with the min_beds the hard
\* filter uses: the given one, or 0 when it is absent.
FilterBedDiff ==
    [i \in 1..Len(Frame.rows) |->
        <<Abs(Frame.rows[i]["beds"][1]
              - (IF "min_beds" \in DOMAIN user_preferences
                 THEN user_preferences["min_beds"] ELSE 0))>>]

\* C20. The bedroom component of every scored listing is
\* 100 * (1 - normalized |beds - min_beds|), where min_beds is the value
\* the hard filter uses, its default 0 for an absent min_beds included.
C20_BedroomComponent ==
    (Returned /\ Output # <<>> /\ "bedrooms" \in ActiveCriteria) =>
        BedroomScore(Frame, user_preferences) = Inverted(Normalize(FilterBedDiff))

\* Bedrooms is the only criterion given a weight above 0.
OnlyBedroomsWeighted ==
    /\ "priorities" \in DOMAIN user_preferences
    /\ "bedrooms" \in DOMAIN user_preferences["priorities"]
    /\ \A c \in DOMAIN user_preferences["priorities"] :
          user_preferences["priorities"][c] > 0 <=> c = "bedrooms"

\* The distance of output record k's bed count from the given min_beds.
BedDistance(k) == Abs(Output[k]["beds"][1] - user_preferences["min_beds"])

\* C21. The bedrooms weight takes effect in the final score: when
\* bedrooms is the only criterion with a weight above 0 and two listings of
\* the filtered set have different bed counts, a listing whose bed count
\* is closest to min_beds has a strictly higher score than a listing whose
\* bed count is farthest from it, and the two have different ranks.
C21_BedroomsWeightTakesEffect ==
    (Returned /\ OnlyBedroomsWeighted /\ "min_beds" \in DOMAIN user_preferences) =>
        \A a, b \in 1..Len(Output) :
            (/\ \A k \in 1..Len(Output) : BedDistance(a) <= BedDistance(k)
             /\ \A k \in 1..Len(Output) : BedDistance(k) <= BedDistance(b)
             /\ BedDistance(a) < BedDistance(b)) =>
                /\ Output[a]["score"] > Output[b]["score"]
                /\ Output[a]["rank"] # Output[b]["rank"]

\* The rows of the scored frame without a year_built.
YearMissing == {i \in 1..Len(Frame.rows) : Frame.rows[i]["year_built"] = NaN}

\* p <= q for two component scores (fractions); two missing scores are
\* equal.
AtMost(p, q) == p = q \/ (p # NaN /\ q # NaN /\ p[1] * q[2] <= q[1] * p[2])

\* C22. Age criterion: a listing without year_built is treated as built in
\* 1900 (age 2024 - 1900) and, whenever the age criterion is active, its
\* age component score is no greater than the age component score of any
\* other listing of the filtered set, whatever the year_built values of
\* the other listings.
C22_MissingYearScoresWorst ==
    (Returned /\ Output # <<>> /\ "age" \in ActiveCriteria) =>
        \A i \in YearMissing :
            /\ Age(Frame)[i] = <<2024 - 1900>>
            /\ \A j \in 1..Len(Frame.rows) :
                  AtMost(AgeScore(Frame)[i], AgeScore(Frame)[j])

\* The values criterion c normalizes over the frame df.
CriterionValues(df, prefs, c) ==
    CASE c = "price" -> Column(df, "price")
      [] c = "location" -> Column(df, "distance_to_downtown")
      [] c = "size" -> Column(df, "sqft")
      [] c = "bedrooms" -> BedDiff(df, prefs)
      [] c = "age" -> Age(df)

\* The criteria that are active and whose values vary over the scored frame.
VaryingCriteria ==
    {c \in ActiveCriteria :
        Cardinality(Values(CriterionValues(Frame, user_preferences, c))) >= 2}

\* 100 * (v - lo) / (hi - lo) for size and 100 * (hi - v) / (hi - lo) for
\* the other criteria.
LinearScore(c, v, lo, hi) ==
    IF c = "size" THEN Reduce(<<100 * (v - lo), hi - lo>>)
    ELSE Reduce(<<100 * (hi - v), hi - lo>>)

\* The component scores s of criterion c are linear in its values between
\* their minimum lo and maximum hi, within [0, 100], 100 at the best value
\* and 0 at the worst; a row without the value has no component score.
LinearBetween(c, values, s, lo, hi) ==
    \A i \in DOMAIN values :
        IF values[i] = NaN THEN s[i] = NaN
        ELSE /\ s[i] = LinearScore(c, values[i][1], lo, hi)
             /\ 0 <= s[i][1] /\ s[i][1] <= 100 * s[i][2]
             /\ values[i][1] = lo => s[i] = (IF c = "size" THEN <<0, 1>> ELSE <<100, 1>>)
             /\ values[i][1] = hi => s[i] = (IF c = "size" THEN <<100, 1>> ELSE <<0, 1>>)

\* C23. Orientation and range of the component scores: for an active
\* criterion whose values vary over the filtered set the component score
\* is linear between the set's minimum and maximum and lies in [0, 100];
\* the lowest price (distance, age, bedroom difference) gets 100 and the
\* highest 0, while the largest sqft gets 100 and the smallest 0.  A
\* listing without the value has no component score.
C23_OrientationAndRange ==
    (Returned /\ Output # <<>>) =>
        Bind(Frame, LAMBDA df :
            \A c \in {"price", "location", "size", "bedrooms", "age"} :
                Active(df, user_preferences, SourceColumn(c), c) =>
                    Bind(CriterionValues(df, user_preferences, c), LAMBDA values :
                        Bind(Values(values), LAMBDA present :
                            Cardinality(present) >= 2 =>
                                Bind(Component(df, user_preferences, c), LAMBDA s :
                                    LinearBetween(c, values, s,
                                                  SetMin(present), SetMax(present))))))

\* A call scored three listings on all five criteria, each with varying
\* values, and one listing has a price score strictly between 0 and 100.
C23_Witness ==
    /\ Returned
    /\ Len(Output) = 3
    /\ VaryingCriteria = {"price", "location", "size", "bedrooms", "age"}
    /\ \E i \in 1..3 :
          LET s == PriceScore(Frame)[i] IN s # NaN /\ 0 < s[1] /\ s[1] < 100 * s[2]

\* The listings with nothing but their identifier and the attributes the
\* scorer reads.
Plain(ls) ==
    [i \in 1..Len(ls) |->
        [k \in DOMAIN ls[i] \cap ({"id"} \cup NumericKeys) |-> ls[i][k]]]

\* What a call yields of identifiers, scores and ranks, in order.
Ranking(outcome) ==
    [kind |-> outcome.kind,
     order |-> [k \in 1..Len(outcome.value) |->
                  <<outcome.value[k]["id"], outcome.value[k]["score"],
                    outcome.value[k]["rank"]>>]]

\* C24. Only the distance attribute keyed downtown feeds the location
\* score: an input and the same input without its other distance_to_<poi>
\* attributes and display attributes yield the same scores, the same ranks
\* and the same order of identifiers (so do any two inputs that differ in
\* those attributes only).
C24_OnlyDowntownDistance ==
    (Called /\ Plain(listings) # listings) =>
        Ranking(result) = Ranking(ScoreListings(Plain(listings), user_preferences))

\* A call returned two listings, the first closer to downtown and farther
\* from the airport than the second, with different scores.
C24_Witness ==
    /\ Returned
    /\ Len(Output) = 2
    /\ {"distance_to_downtown", "distance_to_airport", "address"} \subseteq DOMAIN Output[1]
    /\ Output[1]["distance_to_downtown"] # NaN /\ Output[2]["distance_to_downtown"] # NaN
    /\ Output[1]["distance_to_airport"] # NaN /\ Output[2]["distance_to_airport"] # NaN
    /\ Output[1]["distance_to_downtown"][1] < Output[2]["distance_to_downtown"][1]
    /\ Output[1]["distance_to_airport"][1] > Output[2]["distance_to_airport"][1]
    /\ Output[1]["address"] # Output[2]["address"]
    /\ Output[1]["score"] > Output[2]["score"]

\* The weight given to criterion c (in percent), 0 when none is given.
Weight(c) ==
    IF "priorities" \in DOMAIN user_preferences /\ c \in DOMAIN user_preferences["priorities"]
    THEN user_preferences["priorities"][c] ELSE 0

\* Criterion c has a weight above 0 and its source attribute is present in
\* a listing that passed the filter.
ActiveOnFiltered(c) ==
    /\ Weight(c) > 0
    /\ \E i \in Passing : SourceColumn(c) \in DOMAIN listings[i]

\* The sum of the weights of the first n criteria that are active.
RECURSIVE ActiveWeightSum(_)
ActiveWeightSum(n) ==
    IF n = 0 THEN 0
    ELSE ActiveWeightSum(n - 1) + (IF ActiveOnFiltered(Criteria[n]) THEN Weight(Criteria[n]) ELSE 0)

\* C25. Score bounds: for non-negative weights every score returned
\* satisfies 0 <= score <= 100 * (sum of the weights of the active
\* criteria); the bound grows with the sum of the weights and is not
\* capped at 100.  (Scores in cents against weights in percent.)
C25_ScoreBounds ==
    Returned =>
        \A k \in 1..Len(Output) :
            /\ 0 <= Output[k]["score"]
            /\ Output[k]["score"] <= 100 * ActiveWeightSum(Len(Criteria))

\* The caller's listings that violate a hard constraint.
Failing == (1..Len(listings)) \ Passing

\* The list ls without its element at position i.
Remove(ls, i) == SubSeq(ls, 1, i - 1) \o SubSeq(ls, i + 1, Len(ls))

\* C26. Listings that fail the hard filter have no influence on the
\* result: removing from the input any listing that violates a hard
\* constraint leaves the returned sequence (records, scores, ranks and
\* order) unchanged.
C26_FailingListingsHaveNoInfluence ==
    (Returned /\ Output # <<>>) =>
        \A i \in Failing :
            Ranking(ScoreListings(Remove(listings, i), user_preferences)) = Ranking(result)

\* C27. Chat-history consistency of the app session: after any sequence of
\* asks in either mode, Clear History and Fetch New Listings, the memory
\* of the session's conv_qa holds exactly twice as many messages as the
\* session's chat_history has entries, and entry k of chat_history is the
\* k-th user/AI message pair of the memory.
C27_ChatHistoryConsistency ==
    IF conv_qa = "None" THEN chat_history = <<>>
    ELSE /\ Len(messages) = 2 * Len(chat_history)
         /\ \A k \in 1..Len(chat_history) :
               <<messages[2 * k - 1], messages[2 * k]>>
                   = Exchange(chat_history[k].q, chat_history[k].a)

\* C28. In the app session Ask and Clear History run only against an
\* initialized QA object: in every state in which the tab with the two
\* buttons is rendered, session_state.qa and session_state.conv_qa are not
\* None, also after load_ai_system failed and returned (None, None, None).
C28_QaInitialized ==
    phase = "rendered" => (qa # "None" /\ conv_qa # "None")

\* The cities whose listings are in all_listings.
ListedCities == {all_listings[k] : k \in 1..Len(all_listings)}
FailedCities == {failed_cities[k] : k \in 1..Len(failed_cities)}

\* C29. Accounting of fetch_nationwide_listings: every city the loop has
\* done is counted exactly once, as successful or as failed, whatever mix
\* of listings, empty results and exceptions the cities produced; the
\* function returns only after the last city, so an exception stops no
\* later city and at the return successful_cities + len(failed_cities) is
\* the number of cities; and the listings collected are those of the
\* cities counted as successful.
C29_FetchAccounting ==
    /\ successful_cities + Len(failed_cities) = city
    /\ Cardinality(FailedCities) = Len(failed_cities)
    /\ Cardinality(ListedCities) = successful_cities
    /\ ListedCities \cap FailedCities = {}
    /\ ListedCities \cup FailedCities = 1..city
    /\ \A k \in 1..Len(log) : log[k] = "ok" <=> k \in ListedCities
    /\ returned => successful_cities + Len(failed_cities) = NumCities

\* The function returned after a city that raised, a later city without
\* listings and a still later city with listings.
C29_Witness ==
    /\ returned
    /\ \E i, j, k \in 1..Len(log) :
          /\ i < j /\ j < k
          /\ log[i] = "error" /\ log[j] = "none" /\ log[k] = "ok"
          /\ k \in ListedCities

====
